---------------------------- MODULE Spec2Model ----------------------------
(***************************************************************************)
(* snowchange (src/snowchange.py): applies versioned SQL change scripts    *)
(* to a database, recording each applied script in a change history table. *)
(*                                                                         *)
(* Strings are sequences of characters; a character is a one-element TLA+  *)
(* string, except the two non-ASCII digits "ar3" (U+0663, ARABIC-INDIC     *)
(* DIGIT THREE) and "sup2" (U+00B2, SUPERSCRIPT TWO).                      *)
(***************************************************************************)
EXTENDS Integers, Sequences, FiniteSets, TLC

\* ------------------------------------------------------------------ bounds
\* Files found by one walk of the root folder.
MaxFiles == 3
\* Sequential runs of snowchange() against the same history table.
MaxRuns == 2
\* Length of a version string in the Version Key specification.
MaxVerLen == 2
MaxOverrideLen == 4
MaxContentLen == 4

\* --------------------------------------------------------------- characters
\* Code points: Python compares str by code point.
Ord ==
  [c \in {" ", ".", "0", "1", "2", "5", ";", "A", "V", "_", "a", "b", "e",
          "l", "n", "o", "q", "s", "t", "v", "x", "sup2", "ar3"} |->
     CASE c = " " -> 32 [] c = "." -> 46 [] c = "0" -> 48 [] c = "1" -> 49
       [] c = "2" -> 50 [] c = "5" -> 53 [] c = ";" -> 59 [] c = "A" -> 65
       [] c = "V" -> 86 [] c = "_" -> 95 [] c = "a" -> 97 [] c = "b" -> 98
       [] c = "e" -> 101 [] c = "l" -> 108 [] c = "n" -> 110 [] c = "o" -> 111
       [] c = "q" -> 113 [] c = "s" -> 115 [] c = "t" -> 116 [] c = "v" -> 118
       [] c = "x" -> 120 [] c = "sup2" -> 178 [] c = "ar3" -> 1635]

\* The regular expression class [0-9].
IsAsciiDigit(c) == Ord[c] >= 48 /\ Ord[c] <= 57

\* int() accepts the characters of Unicode category Nd.
IsDecimal(c) == IsAsciiDigit(c) \/ c = "ar3"

\* str.isdigit() accepts Nd and the other characters with a digit value.
IsDigitChar(c) == IsDecimal(c) \/ c = "sup2"

DigitValue(c) == IF c = "ar3" THEN 3 ELSE Ord[c] - 48

\* str.lower() of one character.
LowerChar(c) == IF c = "A" THEN "a" ELSE IF c = "V" THEN "v" ELSE c

lower(text) == [i \in 1..Len(text) |-> LowerChar(text[i])]

\* str.isdigit(): non-empty and every character a digit.
isdigit(text) == Len(text) > 0 /\ \A i \in 1..Len(text) : IsDigitChar(text[i])

RECURSIVE IntValue(_, _)
IntValue(text, acc) ==
  IF text = <<>> THEN acc
  ELSE IntValue(Tail(text), 10 * acc + DigitValue(Head(text)))

\* ------------------------------------------------------------- Version Key
\* Length of the run of characters from position i that are ASCII digits
\* (digit = TRUE) or are not (digit = FALSE).
RECURSIVE RunLen(_, _, _)
RunLen(s, i, digit) ==
  IF i > Len(s) \/ IsAsciiDigit(s[i]) # digit THEN 0
  ELSE 1 + RunLen(s, i + 1, digit)

\* re.split('([0-9]+)', key): text, digits, text, ..., text.
RECURSIVE re_split_from(_, _)
re_split_from(s, i) ==
  LET n == RunLen(s, i, FALSE)
      text == SubSeq(s, i, i + n - 1)
      j == i + n
  IN IF j > Len(s) THEN <<text>>
     ELSE LET d == RunLen(s, j, TRUE)
          IN <<text, SubSeq(s, j, j + d - 1)>> \o re_split_from(s, j + d)

re_split(key) == re_split_from(key, 1)

StrSeg(s) == [kind |-> "str", n |-> 0, s |-> s]
IntSeg(n) == [kind |-> "int", n |-> n, s |-> <<>>]
\* int(text) raised ValueError.
ErrSeg == [kind |-> "ValueError", n |-> 0, s |-> <<>>]

\* convert = lambda text: int(text) if text.isdigit() else text.lower()
convert(text) ==
  IF isdigit(text)
  THEN IF \A i \in 1..Len(text) : IsDecimal(text[i])
       THEN IntSeg(IntValue(text, 0))
       ELSE ErrSeg
  ELSE StrSeg(lower(text))

get_alphanum_key(key) ==
  LET parts == re_split(key) IN [i \in 1..Len(parts) |-> convert(parts[i])]

\* get_alphanum_key(key) raises ValueError.
KeyRaises(key) ==
  LET k == get_alphanum_key(key) IN \E i \in 1..Len(k) : k[i].kind = "ValueError"

\* Python's str comparison: "lt", "eq" or "gt".
RECURSIVE StrCmp(_, _)
StrCmp(s, t) ==
  IF s = <<>> THEN (IF t = <<>> THEN "eq" ELSE "lt")
  ELSE IF t = <<>> THEN "gt"
  ELSE IF Ord[Head(s)] < Ord[Head(t)] THEN "lt"
  ELSE IF Ord[Head(s)] > Ord[Head(t)] THEN "gt"
  ELSE StrCmp(Tail(s), Tail(t))

\* Python's list comparison: the first pair of unequal elements decides (an int
\* against a str is a TypeError), else the lengths do.
RECURSIVE ListCmp(_, _)
ListCmp(k1, k2) ==
  IF k1 = <<>> THEN (IF k2 = <<>> THEN "eq" ELSE "lt")
  ELSE IF k2 = <<>> THEN "gt"
  ELSE IF Head(k1) = Head(k2) THEN ListCmp(Tail(k1), Tail(k2))
  ELSE IF Head(k1).kind # Head(k2).kind THEN "TypeError"
  ELSE IF Head(k1).kind = "int"
       THEN (IF Head(k1).n < Head(k2).n THEN "lt" ELSE "gt")
       ELSE StrCmp(Head(k1).s, Head(k2).s)

\* The outcome of comparing the keys of two strings: "lt", "eq", "gt", or the
\* exception raised.
KeyCmp(a, b) ==
  IF KeyRaises(a) \/ KeyRaises(b) THEN "ValueError"
  ELSE ListCmp(get_alphanum_key(a), get_alphanum_key(b))


\* ----------------------------------------------------------------- sorting
\* The exception sorted(data, key=get_alphanum_key) raises, or "" for none. The
\* keys are all computed first (ValueError); the sort then raises TypeError if
\* and only if two keys are incomparable: keys that compare without error form
\* classes closed under comparison, and no sort orders a list without comparing
\* across two classes.
SortRaises(data) ==
  IF \E i \in 1..Len(data) : KeyRaises(data[i]) THEN "ValueError"
  ELSE IF \E i, j \in 1..Len(data) : KeyCmp(data[i], data[j]) = "TypeError"
       THEN "TypeError"
       ELSE ""

\* x placed after the elements of the sorted acc that are not greater: the sort
\* is stable.
RECURSIVE InsertSorted(_, _)
InsertSorted(acc, x) ==
  IF acc = <<>> THEN <<x>>
  ELSE IF KeyCmp(x, Head(acc)) = "lt" THEN <<x>> \o acc
  ELSE <<Head(acc)>> \o InsertSorted(Tail(acc), x)

RECURSIVE SortInto(_, _)
SortInto(data, acc) ==
  IF data = <<>> THEN acc ELSE SortInto(Tail(data), InsertSorted(acc, Head(data)))

\* sorted(data, key=get_alphanum_key), where it does not raise.
sorted_alphanumeric(data) == SortInto(data, <<>>)

\* --------------------------------------------------------------- discovery
SqlSuffix == <<".", "s", "q", "l">>

\* The greatest q in 1..p with s[q+1] = s[q+2] = "_", or 0: where the greedy
\* first (.+) of the file name pattern ends.
RECURSIVE LastSeparator(_, _)
LastSeparator(s, p) ==
  IF p < 1 THEN 0
  ELSE IF s[p + 1] = "_" /\ s[p + 2] = "_" THEN p
  ELSE LastSeparator(s, p - 1)

\* str.strip(): the blank stands for the whitespace characters.
RECURSIVE lstrip(_)
lstrip(s) == IF s # <<>> /\ Head(s) = " " THEN lstrip(Tail(s)) ELSE s

RECURSIVE rstrip(_)
rstrip(s) ==
  IF s # <<>> /\ s[Len(s)] = " " THEN rstrip(SubSeq(s, 1, Len(s) - 1)) ELSE s

strip(s) == rstrip(lstrip(s))

\* re.search(r'^([V])(.+)__(.+)\.sql$', file_name.strip()): the groups, or None.
\* The pattern is matched on the stripped name; the script keeps the name as it is.
script_name_parts(file_name) ==
  LET name == strip(file_name)
      n == Len(name)
      mid == IF n >= 5 THEN SubSeq(name, 2, n - 4) ELSE <<>>
      p == IF Len(mid) >= 4 THEN LastSeparator(mid, Len(mid) - 3) ELSE 0
  IN IF n >= 9 /\ name[1] = "V" /\ SubSeq(name, n - 3, n) = SqlSuffix
        /\ p >= 1
     THEN [matched |-> TRUE, type |-> <<"V">>, version |-> SubSeq(mid, 1, p),
           description |-> SubSeq(mid, p + 3, Len(mid))]
     ELSE [matched |-> FALSE, type |-> <<>>, version |-> <<>>, description |-> <<>>]

\* The walk of get_all_scripts_recursively from file i on: all_files holds the
\* scripts in insertion order, all_versions the versions seen.
RECURSIVE WalkFrom(_, _, _, _)
WalkFrom(files, i, all_files, all_versions) ==
  IF i > Len(files) THEN [raises |-> "", all_files |-> all_files]
  ELSE LET parts == script_name_parts(files[i].name)
           script == [script_name |-> files[i].name,
                      script_full_path |-> i,
                      script_version |-> parts.version]
       IN IF ~parts.matched THEN WalkFrom(files, i + 1, all_files, all_versions)
          ELSE IF \E k \in 1..Len(all_versions) : all_versions[k] = parts.version
               THEN [raises |-> "ValueError_duplicate_version", all_files |-> <<>>]
               ELSE WalkFrom(files, i + 1, Append(all_files, script),
                             Append(all_versions, parts.version))

\* The walk without the check for a version seen before.
RECURSIVE WalkUnchecked(_, _, _)
WalkUnchecked(files, i, all_files) ==
  IF i > Len(files) THEN [raises |-> "", all_files |-> all_files]
  ELSE LET parts == script_name_parts(files[i].name)
           script == [script_name |-> files[i].name,
                      script_full_path |-> i,
                      script_version |-> parts.version]
       IN IF ~parts.matched THEN WalkUnchecked(files, i + 1, all_files)
          ELSE WalkUnchecked(files, i + 1, Append(all_files, script))

get_all_scripts_unchecked(files) == WalkUnchecked(files, 1, <<>>)

get_all_scripts_recursively(files) == WalkFrom(files, 1, <<>>, <<>>)

\* ------------------------------------------------------- script content
\* The normalization that removes every trailing ';'.
RECURSIVE read_content_rstrip(_)
read_content_rstrip(text) ==
  LET content == strip(text)
  IN IF content # <<>> /\ content[Len(content)] = ";"
     THEN read_content_rstrip(SubSeq(content, 1, Len(content) - 1))
     ELSE content

\* content = content_file.read().strip()
\* content = content[:-1] if content.endswith(';') else content
read_content(text) ==
  LET content == strip(text)
  IN IF content # <<>> /\ content[Len(content)] = ";"
     THEN SubSeq(content, 1, Len(content) - 1)
     ELSE content

\* ------------------------------------------------- change history table
UpperChar(c) ==
  CASE c = "a" -> "A" [] c = "c" -> "C" [] c = "d" -> "D" [] c = "e" -> "E"
    [] c = "g" -> "G" [] c = "h" -> "H" [] c = "i" -> "I" [] c = "m" -> "M"
    [] c = "n" -> "N" [] c = "o" -> "O" [] c = "r" -> "R" [] c = "s" -> "S"
    [] c = "t" -> "T" [] c = "w" -> "W" [] c = "x" -> "X" [] c = "y" -> "Y"
    [] OTHER -> c

upper(text) == [i \in 1..Len(text) |-> UpperChar(text[i])]

_metadata_database_name == <<"M", "E", "T", "A", "D", "A", "T", "A">>
_metadata_schema_name == <<"S", "N", "O", "W", "C", "H", "A", "N", "G", "E">>
_metadata_table_name ==
  <<"C", "H", "A", "N", "G", "E", "_", "H", "I", "S", "T", "O", "R", "Y">>

\* str.split('.')
RECURSIVE split_dot(_, _)
split_dot(s, part) ==
  IF s = <<>> THEN <<part>>
  ELSE IF Head(s) = "." THEN <<part>> \o split_dot(Tail(s), <<>>)
  ELSE split_dot(Tail(s), Append(part, Head(s)))

\* No override (None).
None == "None"

\* The resolution that reads a two-part name as table.schema.
table_details_reversed(change_history_table_override) ==
  LET defaults == [database_name |-> upper(_metadata_database_name),
                   schema_name |-> upper(_metadata_schema_name),
                   table_name |-> upper(_metadata_table_name)]
      table_name_parts == split_dot(strip(change_history_table_override), <<>>)
  IN IF change_history_table_override = None
     THEN [raises |-> "", details |-> defaults]
     ELSE IF Len(table_name_parts) = 1
     THEN [raises |-> "",
           details |-> [defaults EXCEPT !.table_name = upper(table_name_parts[1])]]
     ELSE IF Len(table_name_parts) = 2
     THEN [raises |-> "",
           details |-> [defaults EXCEPT !.table_name = upper(table_name_parts[1]),
                                        !.schema_name = upper(table_name_parts[2])]]
     ELSE IF Len(table_name_parts) = 3
     THEN [raises |-> "",
           details |-> [database_name |-> upper(table_name_parts[1]),
                        schema_name |-> upper(table_name_parts[2]),
                        table_name |-> upper(table_name_parts[3])]]
     ELSE [raises |-> "ValueError_table_name", details |-> defaults]

get_change_history_table_details(change_history_table_override) ==
  LET defaults == [database_name |-> upper(_metadata_database_name),
                   schema_name |-> upper(_metadata_schema_name),
                   table_name |-> upper(_metadata_table_name)]
      table_name_parts == split_dot(strip(change_history_table_override), <<>>)
  IN IF change_history_table_override = None
     THEN [raises |-> "", details |-> defaults]
     ELSE IF Len(table_name_parts) = 1
     THEN [raises |-> "",
           details |-> [defaults EXCEPT !.table_name = upper(table_name_parts[1])]]
     ELSE IF Len(table_name_parts) = 2
     THEN [raises |-> "",
           details |-> [defaults EXCEPT !.table_name = upper(table_name_parts[2]),
                                        !.schema_name = upper(table_name_parts[1])]]
     ELSE IF Len(table_name_parts) = 3
     THEN [raises |-> "",
           details |-> [database_name |-> upper(table_name_parts[1]),
                        schema_name |-> upper(table_name_parts[2]),
                        table_name |-> upper(table_name_parts[3])]]
     ELSE [raises |-> "ValueError_table_name", details |-> defaults]

\* ------------------------------------------------------------------ state
VARIABLES
  catalog,                  \* the files under the root folder, in walk order
  history,                  \* the rows of the change history table, oldest first
  run,                      \* number of the current run of snowchange()
  pc,                       \* where the current run is
  failure,                  \* the exception that ended the current run, or ""
  change_history_table,     \* the resolved table location, once resolved
  max_published_version,
  all_scripts,              \* the dictionary of discovered scripts, in insertion order
  all_script_names_sorted,
  idx,                      \* position of the loop in all_script_names_sorted
  scripts_applied,
  scripts_skipped,
  trace,                    \* the queries the current run has sent, in order
  hist0,                    \* the history table as it was when the run started
  past,                     \* the runs that have ended, oldest first
  private_key,              \* a private key file is given and its passphrase is set
  con,                      \* the call of execute_snowflake_query in hand holds a connection
  connections,              \* the connections the run has open
  va, vb, vc,               \* Version Key specification: three version strings
  cmp,                      \* Version Key specification: their comparisons
  text,                     \* function specifications: the string given
  result                    \* function specifications: what the function gave

vars == <<catalog, history, run, pc, failure, change_history_table,
          max_published_version, all_scripts, all_script_names_sorted, idx,
          scripts_applied, scripts_skipped, trace, hist0, past, private_key, con,
          connections, va, vb, vc, cmp, text, result>>

keyVars == <<va, vb, vc, cmp, text, result>>

conVars == <<con, connections>>

\* ------------------------------------------------------------------ inputs
Sql(stem) == <<"V">> \o stem \o <<"_", "_">>

\* The files a root folder may hold: name, content, and the seconds the database
\* takes over the content when it is sent (what time.time() measures around the query).
File(name, content, elapsed) == [name |-> name, content |-> content, elapsed |-> elapsed]

Files ==
  { File(Sql(<<"1">>) \o <<"a">> \o SqlSuffix, <<"x", ";">>, 1),
    File(Sql(<<"0", "1">>) \o <<"a">> \o SqlSuffix, <<"x">>, 0),
    File(Sql(<<"1", ".", "5">>) \o <<"a">> \o SqlSuffix, <<"x">>, 2),
    File(Sql(<<"2">>) \o <<"a">> \o SqlSuffix \o <<" ">>, <<"x", ";", ";">>, 0),
    File(Sql(<<"1">>) \o <<"b">> \o SqlSuffix, <<" ", ";", " ">>, 1),
    File(Sql(<<"1", "ar3">>) \o <<"a">> \o SqlSuffix, <<"x">>, 0),
    File(<<"n", "o", "t", "e", "s", ".", "t", "x", "t">>, <<"x">>, 0) }

Catalogs == UNION { [1..n -> Files] : n \in 0..MaxFiles }

\* The change history table of the model is the default one; these overrides name
\* it in one, two and three parts, and the last has four parts.
TableOverride == <<"c", "h", "a", "n", "g", "e", "_", "h", "i", "s", "t", "o", "r", "y">>
SchemaOverride == <<"s", "n", "o", "w", "c", "h", "a", "n", "g", "e", ".">> \o TableOverride
DatabaseOverride == <<"m", "e", "t", "a", "d", "a", "t", "a", ".">> \o SchemaOverride
Overrides ==
  { None, TableOverride, SchemaOverride, DatabaseOverride, <<"x", ".">> \o DatabaseOverride }

HistoryTable == get_change_history_table_details(None).details

\* change_history_table before get_change_history_table_details has returned.
Unresolved == [database_name |-> <<>>, schema_name |-> <<>>, table_name |-> <<>>]

\* ------------------------------------------------------------------- steps
\* The steps with the history table override resolved after the table's creation.
NextPhaseLateDetails(p) ==
  CASE p = "credentials" -> "root_folder"
    [] p = "root_folder" -> "create_database"
    [] p = "create_database" -> "create_schema"
    [] p = "create_schema" -> "create_table"
    [] p = "create_table" -> "details"
    [] p = "details" -> "fetch"
    [] p = "fetch" -> "discover"
    [] p = "discover" -> "loop"

\* The steps with the scripts discovered before the history is fetched.
NextPhaseDiscoverFirst(p) ==
  CASE p = "credentials" -> "root_folder"
    [] p = "root_folder" -> "details"
    [] p = "details" -> "create_database"
    [] p = "create_database" -> "create_schema"
    [] p = "create_schema" -> "create_table"
    [] p = "create_table" -> "discover"
    [] p = "discover" -> "fetch"
    [] p = "fetch" -> "loop"

\* The order of the steps of snowchange().
NextPhase(p) ==
  CASE p = "credentials" -> "root_folder"
    [] p = "root_folder" -> "details"
    [] p = "details" -> "create_database"
    [] p = "create_database" -> "create_schema"
    [] p = "create_schema" -> "create_table"
    [] p = "create_table" -> "fetch"
    [] p = "fetch" -> "discover"
    [] p = "discover" -> "loop"

Statement(p) ==
  CASE p = "create_database" -> "CREATE DATABASE IF NOT EXISTS"
    [] p = "create_schema" -> "CREATE SCHEMA IF NOT EXISTS"
    [] p = "create_table" -> "CREATE TABLE IF NOT EXISTS"
    [] p = "fetch" -> "SELECT VERSION"
    [] p = "execute" -> "SCRIPT"
    [] p = "insert" -> "INSERT"

\* One statement sent by execute_snowflake_query, and its outcome.
Query(statement, script_name, ok) ==
  [statement |-> statement, script |-> script_name, ok |-> ok]

\* The close that is skipped when the statement raises.
close_on_success(n, ok) == IF ok THEN n - 1 ELSE n

\* finally: con.close(): the connection is closed whatever execute_string did.
close(n, ok) == n - 1

ConfigErrors ==
  {"ValueError_credentials", "ValueError_root_folder", "ValueError_table_name"}

Raise(exception) == pc' = "Failed" /\ failure' = exception

ScriptNamed(scripts, script_name) ==
  scripts[CHOOSE i \in 1..Len(scripts) : scripts[i].script_name = script_name]

CurrentScript == ScriptNamed(all_scripts, all_script_names_sorted[idx])

\* if "SNOWSQL_PWD" not in os.environ and (not private_key_file or
\*    "SNOWSQL_PRIVATE_KEY_PASSPHRASE" not in os.environ): raise ValueError
MissingCredentials(pwd, private_key_file, passphrase) ==
  ~pwd /\ (~private_key_file \/ ~passphrase)

CheckCredentials ==
  /\ pc = "credentials"
  /\ \E pwd, private_key_file, passphrase \in BOOLEAN :
       /\ IF MissingCredentials(pwd, private_key_file, passphrase)
          THEN Raise("ValueError_credentials")
          ELSE pc' = NextPhase(pc) /\ failure' = failure
       /\ private_key' = (private_key_file /\ passphrase)
  /\ UNCHANGED <<catalog, history, run, change_history_table, max_published_version,
                 all_scripts, all_script_names_sorted, idx, scripts_applied,
                 scripts_skipped, trace, hist0, past, conVars, keyVars>>

CheckRootFolder ==
  /\ pc = "root_folder"
  /\ \E isdir \in BOOLEAN :
       IF ~isdir THEN Raise("ValueError_root_folder")
       ELSE pc' = NextPhase(pc) /\ failure' = failure
  /\ scripts_skipped' = 0
  /\ scripts_applied' = 0
  /\ UNCHANGED <<catalog, history, run, change_history_table, max_published_version,
                 all_scripts, all_script_names_sorted, idx, trace, hist0,
                 past, conVars, keyVars, private_key>>

GetChangeHistoryTableDetails ==
  /\ pc = "details"
  /\ \E override \in Overrides :
       LET r == get_change_history_table_details(override)
       IN IF r.raises # ""
          THEN Raise(r.raises) /\ UNCHANGED change_history_table
          ELSE /\ r.details = HistoryTable
               /\ change_history_table' = r.details
               /\ pc' = NextPhase(pc)
               /\ failure' = failure
  /\ UNCHANGED <<catalog, history, run, max_published_version, all_scripts,
                 all_script_names_sorted, idx, scripts_applied, scripts_skipped,
                 trace, hist0, past, conVars, keyVars, private_key>>

\* The three statements of create_change_history_table_if_missing, one per step.
CreateChangeHistoryTable ==
  /\ pc \in {"create_database", "create_schema", "create_table"}
  /\ con
  /\ \E ok \in BOOLEAN :
       /\ trace' = Append(trace, Query(Statement(pc), <<>>, ok))
       /\ con' = FALSE
       /\ connections' = close(connections, ok)
       /\ IF ok THEN pc' = NextPhase(pc) /\ failure' = failure
          ELSE Raise("DatabaseError")
  /\ UNCHANGED <<catalog, history, run, change_history_table, max_published_version,
                 all_scripts, all_script_names_sorted, idx, scripts_applied,
                 scripts_skipped, hist0, past, keyVars, private_key>>

\* The watermark taken from the first element of the sorted change_history.
MinPublished(change_history) ==
  IF change_history = <<>> THEN {<<>>}
  ELSE { change_history[i] : i \in
           { k \in 1..Len(change_history) :
               \A j \in 1..Len(change_history) :
                 KeyCmp(change_history[k], change_history[j]) \in {"lt", "eq"} } }

\* The values max_published_version may take: the last element of the sorted
\* change_history, for the orders in which the SELECT may return the rows.
MaxPublished(change_history) ==
  IF change_history = <<>> THEN {<<>>}
  ELSE { change_history[i] : i \in
           { k \in 1..Len(change_history) :
               \A j \in 1..Len(change_history) :
                 KeyCmp(change_history[j], change_history[k]) \in {"lt", "eq"} } }

FetchChangeHistory ==
  /\ pc = "fetch"
  /\ con
  /\ \E ok \in BOOLEAN :
       /\ trace' = Append(trace, Query(Statement(pc), <<>>, ok))
       /\ con' = FALSE
       /\ connections' = close(connections, ok)
       /\ LET change_history == [i \in 1..Len(history) |-> history[i].version]
          IN IF ~ok THEN Raise("DatabaseError") /\ UNCHANGED max_published_version
             ELSE IF change_history # <<>> /\ SortRaises(change_history) # ""
             THEN Raise(SortRaises(change_history)) /\ UNCHANGED max_published_version
             ELSE /\ max_published_version' \in MaxPublished(change_history)
                  /\ pc' = NextPhase(pc)
                  /\ failure' = failure
  /\ UNCHANGED <<catalog, history, run, change_history_table, all_scripts,
                 all_script_names_sorted, idx, scripts_applied, scripts_skipped,
                 hist0, past, keyVars, private_key>>

ScriptNames(scripts) == [i \in 1..Len(scripts) |-> scripts[i].script_name]

Discover ==
  /\ pc = "discover"
  /\ LET r == get_all_scripts_recursively(catalog)
         all_script_names == ScriptNames(r.all_files)
     IN IF r.raises # ""
        THEN Raise(r.raises) /\ UNCHANGED <<all_scripts, all_script_names_sorted>>
        ELSE IF SortRaises(all_script_names) # ""
        THEN /\ Raise(SortRaises(all_script_names))
             /\ all_scripts' = r.all_files
             /\ UNCHANGED all_script_names_sorted
        ELSE /\ all_scripts' = r.all_files
             /\ all_script_names_sorted' = sorted_alphanumeric(all_script_names)
             /\ pc' = NextPhase(pc)
             /\ failure' = failure
  /\ UNCHANGED <<catalog, history, run, change_history_table, max_published_version,
                 idx, scripts_applied, scripts_skipped, trace, hist0,
                 past, conVars, keyVars, private_key>>

\* The comparison with < in place of <=.
StrictlyOlder(script_version, max_version) ==
  KeyCmp(script_version, max_version) = "lt"

\* get_alphanum_key(script['script_version']) <= get_alphanum_key(max_published_version)
NotNewer(script_version, max_version) ==
  KeyCmp(script_version, max_version) \in {"lt", "eq"}

CompareRaises(script_version, max_version) ==
  IF KeyCmp(script_version, max_version) \in {"ValueError", "TypeError"}
  THEN KeyCmp(script_version, max_version)
  ELSE ""

InLoop == pc = "loop" /\ idx <= Len(all_script_names_sorted)

\* The comparison of the loop raises.
LoopRaise ==
  /\ InLoop
  /\ CompareRaises(CurrentScript.script_version, max_published_version) # ""
  /\ Raise(CompareRaises(CurrentScript.script_version, max_published_version))
  /\ UNCHANGED <<catalog, history, run, change_history_table, max_published_version,
                 all_scripts, all_script_names_sorted, idx, scripts_applied,
                 scripts_skipped, trace, hist0, past, conVars, keyVars, private_key>>

\* The skip that does not count the script.
SkipScriptUncounted ==
  /\ pc = "loop" /\ idx <= Len(all_script_names_sorted)
  /\ KeyCmp(ScriptNamed(all_scripts, all_script_names_sorted[idx]).script_version,
            max_published_version) \in {"lt", "eq"}
  /\ idx' = idx + 1
  /\ UNCHANGED <<catalog, history, run, pc, failure, change_history_table,
                 max_published_version, all_scripts, all_script_names_sorted,
                 scripts_applied, scripts_skipped, trace, hist0, past, conVars,
                 keyVars, private_key>>

SkipScript ==
  /\ InLoop
  /\ CompareRaises(CurrentScript.script_version, max_published_version) = ""
  /\ NotNewer(CurrentScript.script_version, max_published_version)
  /\ scripts_skipped' = scripts_skipped + 1
  /\ idx' = idx + 1
  /\ UNCHANGED <<catalog, history, run, pc, failure, change_history_table,
                 max_published_version, all_scripts, all_script_names_sorted,
                 scripts_applied, trace, hist0, past, conVars, keyVars, private_key>>

ScriptContent(script) == read_content(catalog[script.script_full_path].content)

\* The run is at a call of execute_snowflake_query: one of the statements of the
\* history table, a script's content when it is not empty, or a script's INSERT.
AtQuery ==
  \/ pc \in {"create_database", "create_schema", "create_table", "fetch", "insert"}
  \/ /\ InLoop
     /\ CompareRaises(CurrentScript.script_version, max_published_version) = ""
     /\ ~NotNewer(CurrentScript.script_version, max_published_version)
     /\ Len(ScriptContent(CurrentScript)) > 0

\* The exceptions of read_key: the key file cannot be opened, or its content
\* cannot be loaded with the passphrase.
KeyErrors == {"FileNotFoundError", "ValueError_private_key"}

\* pbk = read_key(private_key_file) if private_key_file and
\* "SNOWSQL_PRIVATE_KEY_PASSPHRASE" in os.environ else None: what the line may
\* raise, "" for nothing.
read_key(with_private_key) == IF with_private_key THEN KeyErrors \cup {""} ELSE {""}

\* The start of execute_snowflake_query: the private key is read when one is
\* configured, then con = snowflake.connector.connect(...) opens the connection;
\* either may raise.
Connect ==
  /\ AtQuery
  /\ ~con
  /\ \E raised \in read_key(private_key) :
       IF raised # ""
       THEN Raise(raised) /\ UNCHANGED conVars
       ELSE \E ok \in BOOLEAN :
              IF ok
              THEN /\ con' = TRUE
                   /\ connections' = connections + 1
                   /\ UNCHANGED <<pc, failure>>
              ELSE Raise("DatabaseError") /\ UNCHANGED conVars
  /\ UNCHANGED <<catalog, history, run, change_history_table, max_published_version,
                 all_scripts, all_script_names_sorted, idx, scripts_applied,
                 scripts_skipped, trace, hist0, past, keyVars, private_key>>

\* The execution whose failure is not propagated.
ExecuteScriptIgnoringFailure ==
  /\ InLoop
  /\ CompareRaises(CurrentScript.script_version, max_published_version) = ""
  /\ ~NotNewer(CurrentScript.script_version, max_published_version)
  /\ IF Len(ScriptContent(CurrentScript)) > 0
     THEN /\ con
          /\ \E ok \in BOOLEAN :
               /\ trace' = Append(trace, Query(Statement("execute"),
                                               CurrentScript.script_name, ok))
               /\ con' = FALSE
               /\ connections' = close(connections, ok)
               /\ pc' = "insert" /\ failure' = failure
     ELSE pc' = "insert" /\ UNCHANGED <<failure, trace, conVars>>
  /\ UNCHANGED <<catalog, history, run, change_history_table, max_published_version,
                 all_scripts, all_script_names_sorted, idx, scripts_applied,
                 scripts_skipped, hist0, past, keyVars, private_key>>

\* apply_change_script up to the execution of the script's content.
ExecuteScript ==
  /\ InLoop
  /\ CompareRaises(CurrentScript.script_version, max_published_version) = ""
  /\ ~NotNewer(CurrentScript.script_version, max_published_version)
  /\ IF Len(ScriptContent(CurrentScript)) > 0
     THEN /\ con
          /\ \E ok \in BOOLEAN :
               /\ trace' = Append(trace, Query(Statement("execute"),
                                               CurrentScript.script_name, ok))
               /\ con' = FALSE
               /\ connections' = close(connections, ok)
               /\ IF ok THEN pc' = "insert" /\ failure' = failure
                  ELSE Raise("DatabaseError")
     ELSE pc' = "insert" /\ UNCHANGED <<failure, trace, conVars>>
  /\ UNCHANGED <<catalog, history, run, change_history_table, max_published_version,
                 all_scripts, all_script_names_sorted, idx, scripts_applied,
                 scripts_skipped, hist0, past, keyVars, private_key>>

\* hashlib.sha224(content.encode('utf-8')).hexdigest(): the digest is kept as the
\* content it was taken of, so that two digests are equal when the contents are.
sha224(content) == <<"sha224", content>>

\* The execution time measured for every script, executed or not.
execution_time_measured(script) == catalog[script.script_full_path].elapsed

\* execution_time = 0, and round(end - start) when the content was executed.
execution_time(script) ==
  IF Len(ScriptContent(script)) > 0 THEN catalog[script.script_full_path].elapsed ELSE 0

\* The row of the INSERT: the columns VERSION, SCRIPT, CHECKSUM, EXECUTION_TIME, STATUS.
HistoryRow(script) ==
  [version |-> script.script_version, script |-> script.script_name,
   checksum |-> sha224(ScriptContent(script)),
   execution_time |-> execution_time(script),
   status |-> "Success"]

\* The recording that overwrites the rows of the table with the new row.
RecordChangeReplacing ==
  /\ pc = "insert"
  /\ con
  /\ \E ok \in BOOLEAN :
       /\ trace' = Append(trace, Query(Statement(pc), CurrentScript.script_name, ok))
       /\ con' = FALSE
       /\ connections' = close(connections, ok)
       /\ IF ok
          THEN /\ history' = <<HistoryRow(CurrentScript)>>
               /\ scripts_applied' = scripts_applied + 1
               /\ idx' = idx + 1
               /\ pc' = "loop"
               /\ failure' = failure
          ELSE /\ Raise("DatabaseError")
               /\ UNCHANGED <<history, scripts_applied, idx>>
  /\ UNCHANGED <<catalog, run, change_history_table, max_published_version,
                 all_scripts, all_script_names_sorted, scripts_skipped, hist0,
                 past, keyVars, private_key>>

\* apply_change_script's INSERT, and the loop's count of the script.
RecordChange ==
  /\ pc = "insert"
  /\ con
  /\ \E ok \in BOOLEAN :
       /\ trace' = Append(trace, Query(Statement(pc), CurrentScript.script_name, ok))
       /\ con' = FALSE
       /\ connections' = close(connections, ok)
       /\ IF ok
          THEN /\ history' = Append(history, HistoryRow(CurrentScript))
               /\ scripts_applied' = scripts_applied + 1
               /\ idx' = idx + 1
               /\ pc' = "loop"
               /\ failure' = failure
          ELSE /\ Raise("DatabaseError")
               /\ UNCHANGED <<history, scripts_applied, idx>>
  /\ UNCHANGED <<catalog, run, change_history_table, max_published_version,
                 all_scripts, all_script_names_sorted, scripts_skipped, hist0,
                 past, keyVars, private_key>>

\* print("Successfully applied %d change scripts (skipping %d)"), "Completed successfully"
Report ==
  /\ pc = "loop"
  /\ idx > Len(all_script_names_sorted)
  /\ pc' = "Done"
  /\ UNCHANGED <<catalog, history, run, failure, change_history_table,
                 max_published_version, all_scripts, all_script_names_sorted, idx,
                 scripts_applied, scripts_skipped, trace, hist0, past, conVars,
                 keyVars, private_key>>

RunEnded == pc \in {"Done", "Failed"}

\* The scripts whose content a run executed without error, in order.
Executed(queries) ==
  SelectSeq(queries, LAMBDA q : q.statement = "SCRIPT" /\ q.ok)

\* The script whose execution failed, as a one-element sequence, or <<>>.
FailedScript(queries) ==
  SelectSeq(queries, LAMBDA q : q.statement = "SCRIPT" /\ ~q.ok)

\* What is kept of a run that has ended.
RunSummary ==
  [outcome |-> pc,
   max_published_version |-> max_published_version,
   executed |-> Executed(trace),
   failed_script |-> FailedScript(trace)]

\* The next invocation of snowchange(), over the same catalog and history table.
NextRun ==
  /\ RunEnded
  /\ run < MaxRuns
  /\ run' = run + 1
  /\ past' = Append(past, RunSummary)
  /\ pc' = "credentials"
  /\ failure' = ""
  /\ change_history_table' = Unresolved
  /\ max_published_version' = <<>>
  /\ all_scripts' = <<>>
  /\ all_script_names_sorted' = <<>>
  /\ idx' = 1
  /\ scripts_applied' = 0
  /\ scripts_skipped' = 0
  /\ trace' = <<>>
  /\ hist0' = history
  /\ private_key' = FALSE
  /\ con' = FALSE
  /\ connections' = 0
  /\ UNCHANGED <<catalog, history, keyVars>>

Init ==
  /\ catalog \in Catalogs
  /\ history = <<>>
  /\ run = 1
  /\ pc = "credentials"
  /\ failure = ""
  /\ change_history_table = Unresolved
  /\ max_published_version = <<>>
  /\ all_scripts = <<>>
  /\ all_script_names_sorted = <<>>
  /\ idx = 1
  /\ scripts_applied = 0
  /\ scripts_skipped = 0
  /\ trace = <<>>
  /\ hist0 = <<>>
  /\ past = <<>>
  /\ private_key = FALSE
  /\ con = FALSE
  /\ connections = 0
  /\ va = <<>> /\ vb = <<>> /\ vc = <<>>
  /\ cmp = <<>>
  /\ text = <<>>
  /\ result = <<>>

Next ==
  \/ CheckCredentials
  \/ CheckRootFolder
  \/ GetChangeHistoryTableDetails
  \/ CreateChangeHistoryTable
  \/ FetchChangeHistory
  \/ Discover
  \/ Connect
  \/ LoopRaise
  \/ SkipScript
  \/ ExecuteScript
  \/ RecordChange
  \/ Report
  \/ NextRun

Spec == Init /\ [][Next]_vars

\* The steps of one run: everything but the start of the next run.
RunStep ==
  \/ CheckCredentials
  \/ CheckRootFolder
  \/ GetChangeHistoryTableDetails
  \/ CreateChangeHistoryTable
  \/ FetchChangeHistory
  \/ Discover
  \/ Connect
  \/ LoopRaise
  \/ SkipScript
  \/ ExecuteScript
  \/ RecordChange
  \/ Report

\* The next invocation of snowchange(), over the same history table and a root
\* folder whose files may have been added, removed, renamed or edited meanwhile.
NextRunChanged ==
  /\ RunEnded
  /\ run < MaxRuns
  /\ catalog' \in Catalogs
  /\ run' = run + 1
  /\ past' = Append(past, RunSummary)
  /\ pc' = "credentials"
  /\ failure' = ""
  /\ change_history_table' = Unresolved
  /\ max_published_version' = <<>>
  /\ all_scripts' = <<>>
  /\ all_script_names_sorted' = <<>>
  /\ idx' = 1
  /\ scripts_applied' = 0
  /\ scripts_skipped' = 0
  /\ trace' = <<>>
  /\ hist0' = history
  /\ private_key' = FALSE
  /\ con' = FALSE
  /\ connections' = 0
  /\ UNCHANGED <<history, keyVars>>

NextChanged ==
  \/ CheckCredentials
  \/ CheckRootFolder
  \/ GetChangeHistoryTableDetails
  \/ CreateChangeHistoryTable
  \/ FetchChangeHistory
  \/ Discover
  \/ Connect
  \/ LoopRaise
  \/ SkipScript
  \/ ExecuteScript
  \/ RecordChange
  \/ Report
  \/ NextRunChanged

SpecChanged == Init /\ [][NextChanged]_vars

\* ------------------------------------------- Version Key specification
\* The characters version strings are drawn from.
VersionChars == {".", "0", "1", "a", "A", "ar3", "sup2"}

InitKey ==
  /\ catalog = <<>>
  /\ history = <<>>
  /\ run = 1
  /\ pc = "versions"
  /\ failure = ""
  /\ change_history_table = Unresolved
  /\ max_published_version = <<>>
  /\ all_scripts = <<>>
  /\ all_script_names_sorted = <<>>
  /\ idx = 1
  /\ scripts_applied = 0
  /\ scripts_skipped = 0
  /\ trace = <<>>
  /\ hist0 = <<>>
  /\ past = <<>>
  /\ private_key = FALSE
  /\ con = FALSE
  /\ connections = 0
  /\ va = <<>> /\ vb = <<>> /\ vc = <<>>
  /\ cmp = <<>>
  /\ text = <<>>
  /\ result = <<>>

runVars == <<catalog, history, run, failure, change_history_table,
             max_published_version, all_scripts, all_script_names_sorted, idx,
             scripts_applied, scripts_skipped, trace, hist0, past, private_key, con,
             connections>>

\* One more character of one of the three version strings.
AppendChar ==
  /\ pc = "versions"
  /\ \E c \in VersionChars :
       \/ Len(va) < MaxVerLen /\ va' = Append(va, c) /\ UNCHANGED <<vb, vc>>
       \/ Len(vb) < MaxVerLen /\ vb' = Append(vb, c) /\ UNCHANGED <<va, vc>>
       \/ Len(vc) < MaxVerLen /\ vc' = Append(vc, c) /\ UNCHANGED <<va, vb>>
  /\ UNCHANGED <<pc, cmp, text, result, runVars>>

\* get_alphanum_key(x) <= get_alphanum_key(y), for the pairs of the three.
CompareVersions ==
  /\ pc = "versions"
  /\ va # <<>> /\ vb # <<>> /\ vc # <<>>
  /\ cmp' = [aa |-> KeyCmp(va, va), ab |-> KeyCmp(va, vb), ba |-> KeyCmp(vb, va),
             bc |-> KeyCmp(vb, vc), ac |-> KeyCmp(va, vc)]
  /\ pc' = "compared"
  /\ UNCHANGED <<va, vb, vc, text, result, runVars>>

NextKey == AppendChar \/ CompareVersions

SpecKey == InitKey /\ [][NextKey]_vars

\* -------------------------------------------- function specifications
\* No run of snowchange() is in hand.
NoRun ==
  /\ catalog = <<>>
  /\ history = <<>>
  /\ run = 1
  /\ failure = ""
  /\ change_history_table = Unresolved
  /\ max_published_version = <<>>
  /\ all_scripts = <<>>
  /\ all_script_names_sorted = <<>>
  /\ idx = 1
  /\ scripts_applied = 0
  /\ scripts_skipped = 0
  /\ trace = <<>>
  /\ hist0 = <<>>
  /\ past = <<>>
  /\ private_key = FALSE
  /\ con = FALSE
  /\ connections = 0
  /\ va = <<>> /\ vb = <<>> /\ vc = <<>>
  /\ cmp = <<>>

\* The characters history table overrides are drawn from.
OverrideChars == {"a", "T", ".", " "}

\* The override is absent, or a string that grows a character at a time.
InitTable ==
  /\ NoRun
  /\ pc = "override"
  /\ text \in {None, <<>>}
  /\ result = <<>>

AppendOverrideChar ==
  /\ pc = "override"
  /\ text # None
  /\ Len(text) < MaxOverrideLen
  /\ \E c \in OverrideChars : text' = Append(text, c)
  /\ UNCHANGED <<pc, result, va, vb, vc, cmp, runVars>>

\* change_history_table = get_change_history_table_details(args.change_history_table)
ResolveTable ==
  /\ pc = "override"
  /\ result' = get_change_history_table_details(text)
  /\ pc' = "resolved"
  /\ UNCHANGED <<text, va, vb, vc, cmp, runVars>>

NextTable == AppendOverrideChar \/ ResolveTable

SpecTable == InitTable /\ [][NextTable]_vars

\* The characters script contents are drawn from.
ContentChars == {" ", ";", "x"}

InitContent ==
  /\ NoRun
  /\ pc = "content"
  /\ text = <<>>
  /\ result = <<>>

AppendContentChar ==
  /\ pc = "content"
  /\ Len(text) < MaxContentLen
  /\ \E c \in ContentChars : text' = Append(text, c)
  /\ UNCHANGED <<pc, result, va, vb, vc, cmp, runVars>>

\* The checksums apply_change_script takes of the content, of the content
\* followed by one ';' and of the content followed by two.
Checksum ==
  /\ pc = "content"
  /\ result' = [plain |-> sha224(read_content(text)),
                one |-> sha224(read_content(text \o <<";">>)),
                two |-> sha224(read_content(text \o <<";", ";">>))]
  /\ pc' = "hashed"
  /\ UNCHANGED <<text, va, vb, vc, cmp, runVars>>

NextContent == AppendContentChar \/ Checksum

SpecContent == InitContent /\ [][NextContent]_vars

\* ------------------------------------------------------------------ claims
\* The rows the current run has appended to the history table.
Appended == SubSeq(history, Len(hist0) + 1, Len(history))

\* Script s of the current run's dictionary has a row appended by this run.
AppliedNow(s) == \E k \in 1..Len(Appended) : Appended[k].script = s.script_name

Recorded(version) == \E k \in 1..Len(history) : history[k].version = version

\* The successful executions of script contents, over all runs so far.
AllExecuted ==
  LET Flat[i \in 0..Len(past)] ==
        IF i = 0 THEN <<>> ELSE Flat[i - 1] \o past[i].executed
  IN Flat[Len(past)] \o Executed(trace)

\* C1: over any sequence of runs in which script executions and history inserts
\* may fail, the content of each change script is executed at most once.
C1_ExecutedAtMostOnce ==
  \A i, j \in 1..Len(AllExecuted) :
    AllExecuted[i].script = AllExecuted[j].script => i = j

\* C2: the rows a run appends are in ascending Version Key order of their
\* versions: no row follows a row of a greater version.
C2_AscendingVersionOrder ==
  \A i, j \in 1..Len(Appended) :
    i < j => KeyCmp(Appended[j].version, Appended[i].version) # "lt"

\* C3: after a run that failed executing a script, a following run without a
\* failing operation leaves a row for every script whose version exceeded the
\* failed run's starting watermark.
C3_ResumeAfterFailure ==
  (/\ run >= 2
   /\ past[run - 1].outcome = "Failed"
   /\ past[run - 1].failed_script # <<>>
   /\ pc = "Done")
  => \A k \in 1..Len(all_scripts) :
       KeyCmp(all_scripts[k].script_version,
              past[run - 1].max_published_version) = "gt"
       => Recorded(all_scripts[k].script_version)

\* C4: in a run without a failing operation, a discovered script is applied if
\* and only if its Version Key strictly exceeds the Version Key of every VERSION
\* in the history table at the start of the run (all of them when it is empty).
C4_SelectionRule ==
  pc = "Done"
  => \A k \in 1..Len(all_scripts) :
       AppliedNow(all_scripts[k])
       <=> \A h \in 1..Len(hist0) :
             KeyCmp(all_scripts[k].script_version, hist0[h].version) = "gt"

\* A completed run applied one script and skipped another at or below the
\* watermark whose version was never recorded.
C4_Witness ==
  /\ pc = "Done"
  /\ hist0 # <<>>
  /\ \E k \in 1..Len(all_scripts) : AppliedNow(all_scripts[k])
  /\ \E k \in 1..Len(all_scripts) : ~Recorded(all_scripts[k].script_version)

\* C5: the run that follows a successful run executes no script and appends no
\* row, and, unless its configuration or a database operation fails, it
\* completes successfully having skipped every discovered script.
C5_IdempotentRerun ==
  (run >= 2 /\ past[run - 1].outcome = "Done")
  => /\ \A i \in 1..Len(trace) : trace[i].statement \notin {"SCRIPT", "INSERT"}
     /\ history = hist0
     /\ (RunEnded /\ failure \notin ConfigErrors \cup KeyErrors \cup {"DatabaseError"})
        => /\ pc = "Done"
           /\ scripts_applied = 0
           /\ scripts_skipped = Len(all_scripts)

\* The rows of the successful INSERTs among the queries, in order.
RowsOf(queries) ==
  LET inserts == SelectSeq(queries, LAMBDA q : q.statement = "INSERT" /\ q.ok)
  IN [k \in 1..Len(inserts) |-> HistoryRow(ScriptNamed(all_scripts, inserts[k].script))]

\* C6: when the execution of a script fails, the run sends no further query (no
\* later script is executed or recorded), the run has failed, no row of the
\* failed script is appended, and the history table is what it was at the start
\* followed by the rows of the scripts applied before, in order.
C6_FailureIsolation ==
  \A i \in 1..Len(trace) :
    (trace[i].statement = "SCRIPT" /\ ~trace[i].ok)
    => /\ i = Len(trace)
       /\ pc = "Failed"
       /\ \A k \in 1..Len(Appended) : Appended[k].script # trace[i].script
       /\ history = hist0 \o RowsOf(trace)

\* A script failed after another was applied in the run and before a third.
C6_Witness ==
  /\ FailedScript(trace) # <<>>
  /\ pc = "Failed"
  /\ Len(Appended) >= 1
  /\ idx < Len(all_script_names_sorted)

\* Two change-script files of the catalog carry the same version string.
HasDuplicateVersion ==
  \E i, j \in 1..Len(catalog) :
    /\ i < j
    /\ script_name_parts(catalog[i].name).matched
    /\ script_name_parts(catalog[j].name).matched
    /\ script_name_parts(catalog[i].name).version
         = script_name_parts(catalog[j].name).version

\* C7: with two files of the same version string, discovery raises: no run gets
\* past it, executes a script or appends a row; and the versions of a catalog
\* that discovery returns are pairwise distinct.
C7_DuplicateVersions ==
  /\ HasDuplicateVersion
     => /\ pc \notin {"loop", "insert", "Done"}
        /\ history = <<>>
        /\ \A i \in 1..Len(trace) : trace[i].statement \notin {"SCRIPT", "INSERT"}
  /\ pc \in {"loop", "insert", "Done"}
     => \A i, j \in 1..Len(all_scripts) :
          all_scripts[i].script_version = all_scripts[j].script_version => i = j

\* Discovery has raised on a duplicate version.
C7_Witness ==
  /\ HasDuplicateVersion
  /\ pc = "Failed"
  /\ failure = "ValueError_duplicate_version"

\* C8: a run that ends in a configuration error has opened no connection and
\* sent no statement, and has left the history table as it was.
C8_ConfigErrorsBeforeSideEffects ==
  failure \in ConfigErrors => pc = "Failed" /\ trace = <<>> /\ history = hist0

\* A run rejected a history-table override of more than three parts.
C8_Witness == pc = "Failed" /\ failure = "ValueError_table_name"

Leq(c) == c \in {"lt", "eq"}

\* C9: Version Key comparison is a total order over version strings: a
\* compares equal to itself, any two are comparable, a <= b and b <= a only
\* for the same string, and a <= b and b <= c give a <= c.
C9_TotalOrder ==
  pc = "compared"
  => /\ cmp.aa = "eq"
     /\ cmp.ab \in {"lt", "eq", "gt"}
     /\ (Leq(cmp.ab) /\ Leq(cmp.ba)) => va = vb
     /\ (Leq(cmp.ab) /\ Leq(cmp.bc)) => Leq(cmp.ac)

\* The change-script files of the catalog.
Discovered == { i \in 1..Len(catalog) : script_name_parts(catalog[i].name).matched }

\* C10: at the success report, applied plus skipped is the number of discovered
\* change scripts, and the run has appended as many rows as it reports applied.
C10_RunSummary ==
  pc = "Done"
  => /\ scripts_applied + scripts_skipped = Cardinality(Discovered)
     /\ Len(all_scripts) = Cardinality(Discovered)
     /\ Len(Appended) = scripts_applied

\* A run reports success having applied a script and skipped another.
C10_Witness == pc = "Done" /\ scripts_applied >= 1 /\ scripts_skipped >= 1

\* The rows of the current run for the script named script_name.
RowsFor(script_name) ==
  SelectSeq(Appended, LAMBDA r : r.script = script_name)

\* C11: a script whose content is empty after normalization is never sent for
\* execution; its INSERT leaves exactly one row for it, of status 'Success' and
\* execution time 0, and the script counts as applied.
C11_EmptyScript ==
  /\ scripts_applied = Len(Appended)
  /\ \A k \in 1..Len(all_scripts) :
       Len(ScriptContent(all_scripts[k])) = 0
       => /\ \A i \in 1..Len(trace) :
               trace[i].script = all_scripts[k].script_name
               => trace[i].statement = "INSERT"
          /\ Len(RowsFor(all_scripts[k].script_name)) <= 1
          /\ (\E i \in 1..Len(trace) :
                trace[i] = Query("INSERT", all_scripts[k].script_name, TRUE))
             => /\ Len(RowsFor(all_scripts[k].script_name)) = 1
                /\ RowsFor(all_scripts[k].script_name)[1].status = "Success"
                /\ RowsFor(all_scripts[k].script_name)[1].execution_time = 0

\* A run has recorded a script of empty content, after a script whose content
\* took time to execute.
C11_Witness ==
  /\ pc = "Done"
  /\ \E k \in 1..Len(all_scripts) :
       /\ Len(ScriptContent(all_scripts[k])) = 0
       /\ Len(RowsFor(all_scripts[k].script_name)) = 1
  /\ \E j \in 1..Len(Appended) : Appended[j].execution_time > 0

\* A step that sends a statement to the database.
SendsStatement == Len(trace') = Len(trace) + 1

\* C12: at most one connection is open at any point and none when the run has
\* ended; a statement is sent only over an open connection, and the step after a
\* connection is opened sends exactly one statement and closes the connection,
\* whether the statement succeeds or fails.
C12_ScopedConnections ==
  /\ [](/\ connections \in {0, 1}
        /\ con <=> connections = 1
        /\ RunEnded => connections = 0)
  /\ [][/\ SendsStatement => connections = 1
        /\ connections = 1 => SendsStatement /\ connections' = 0]_vars

\* A run has ended on a script's statement that failed, its connection closed.
C12_Witness ==
  /\ pc = "Failed"
  /\ FailedScript(trace) # <<>>
  /\ ~trace[Len(trace)].ok
  /\ connections = 0

\* The positions of the dots of a string.
Dots(s) == { i \in 1..Len(s) : s[i] = "." }

\* The override without its surrounding blanks: from its first character that
\* is not a blank to its last.
Trimmed(s) ==
  LET solid == { i \in 1..Len(s) : s[i] # " " }
  IN IF solid = {} THEN <<>>
     ELSE SubSeq(s, CHOOSE a \in solid : \A i \in solid : a <= i,
                    CHOOSE b \in solid : \A i \in solid : i <= b)

\* The characters of s from position a to position b, letters in upper case.
UpperPiece(s, a, b) ==
  [i \in 1..(b - a + 1) |-> IF s[a + i - 1] = "a" THEN "A" ELSE s[a + i - 1]]

\* C13: no override resolves to METADATA.SNOWCHANGE.CHANGE_HISTORY; an override
\* of one dotted part to (default database, default schema, part), of two to
\* (default database, part1, part2), of three to (part1, part2, part3), every
\* part in upper case; an override of more than three parts is rejected.
C13_TableLocation ==
  pc = "resolved"
  => LET t == Trimmed(text)
         n == Len(t)
         d1 == CHOOSE d \in Dots(t) : \A e \in Dots(t) : d <= e
         d2 == CHOOSE d \in Dots(t) : \A e \in Dots(t) : e <= d
         METADATA == <<"M", "E", "T", "A", "D", "A", "T", "A">>
         SNOWCHANGE == <<"S", "N", "O", "W", "C", "H", "A", "N", "G", "E">>
         CHANGE_HISTORY ==
           <<"C", "H", "A", "N", "G", "E", "_", "H", "I", "S", "T", "O", "R", "Y">>
     IN IF text = None
        THEN /\ result.raises = ""
             /\ result.details = [database_name |-> METADATA,
                                  schema_name |-> SNOWCHANGE,
                                  table_name |-> CHANGE_HISTORY]
        ELSE CASE Cardinality(Dots(t)) = 0 ->
                    /\ result.raises = ""
                    /\ result.details = [database_name |-> METADATA,
                                         schema_name |-> SNOWCHANGE,
                                         table_name |-> UpperPiece(t, 1, n)]
               [] Cardinality(Dots(t)) = 1 ->
                    /\ result.raises = ""
                    /\ result.details = [database_name |-> METADATA,
                                         schema_name |-> UpperPiece(t, 1, d1 - 1),
                                         table_name |-> UpperPiece(t, d1 + 1, n)]
               [] Cardinality(Dots(t)) = 2 ->
                    /\ result.raises = ""
                    /\ result.details = [database_name |-> UpperPiece(t, 1, d1 - 1),
                                         schema_name |-> UpperPiece(t, d1 + 1, d2 - 1),
                                         table_name |-> UpperPiece(t, d2 + 1, n)]
               [] OTHER -> result.raises = "ValueError_table_name"

\* A two-part override with a lower-case letter in each part has been resolved.
C13_Witness ==
  /\ pc = "resolved"
  /\ text # None
  /\ text = <<"a", ".", "T", "a">>
  /\ result.details.schema_name = <<"A">>
  /\ result.details.table_name = <<"T", "A">>

\* The content without its surrounding blanks and without the last character
\* of that when it is a ';'.
Normalized(s) ==
  LET t == Trimmed(s)
  IN IF t # <<>> /\ t[Len(t)] = ";" THEN SubSeq(t, 1, Len(t) - 1) ELSE t

\* The string does not end in character c.
NoTrailing(s, c) == s = <<>> \/ s[Len(s)] # c

\* C14: the checksum is that of the content trimmed and without one trailing
\* ';'; a content that does not end in ';' and the same content followed by one
\* ';' get the same checksum, and followed by two ';' a different one.
C14_ChecksumNormalization ==
  pc = "hashed"
  => /\ result.plain = sha224(Normalized(text))
     /\ NoTrailing(text, ";")
        => /\ result.one = result.plain
           /\ result.two # result.plain

\* C14 as the code has it: the content followed by one ';' gets the checksum of
\* the content unless the content ends in a blank after other characters, which
\* the ';' then keeps from being trimmed.
C14_Amended ==
  pc = "hashed"
  => /\ result.plain = sha224(Normalized(text))
     /\ NoTrailing(text, ";")
        => /\ result.one = result.plain
               <=> (Trimmed(text) = <<>> \/ NoTrailing(text, " "))
           /\ result.two # result.plain

\* The checksums of a content that ends in a blank and of that content followed
\* by a ';' have been taken, and differ.
C14_Witness ==
  /\ pc = "hashed"
  /\ text = <<"x", " ">>
  /\ result.plain = sha224(<<"x">>)
  /\ result.one = sha224(<<"x", " ">>)

\* The statements every run starts with, in order.
Preamble ==
  <<"CREATE DATABASE IF NOT EXISTS", "CREATE SCHEMA IF NOT EXISTS",
    "CREATE TABLE IF NOT EXISTS", "SELECT VERSION">>

\* C15: the statements of a run are CREATE DATABASE, CREATE SCHEMA, CREATE TABLE
\* and the fetch of the history, in this order, each sent only after the one
\* before succeeded; the scripts are discovered only after the fetch succeeded;
\* and a script is executed or recorded only after the fetch and after discovery
\* has returned every change script of the catalog.
C15_PhaseOrdering ==
  /\ \A i \in 1..Len(trace) :
       /\ i <= Len(Preamble) => trace[i].statement = Preamble[i]
       /\ i > 1 => trace[i - 1].ok
       /\ i > Len(Preamble)
          => /\ trace[i].statement \in {"SCRIPT", "INSERT"}
             /\ Len(all_script_names_sorted) = Cardinality(Discovered)
             /\ \E k \in 1..Len(all_script_names_sorted) :
                  all_script_names_sorted[k] = trace[i].script
  /\ (all_scripts # <<>> \/ pc \in {"loop", "insert", "Done"})
     => /\ Len(trace) >= Len(Preamble)
        /\ trace[Len(Preamble)].ok

\* A run has executed a script after the four statements and discovery.
C15_Witness ==
  /\ pc = "insert"
  /\ Len(trace) = Len(Preamble) + 1
  /\ trace[Len(trace)].statement = "SCRIPT"
  /\ trace[Len(trace)].ok

\* The content of the script named script_name is empty.
EmptyContent(script_name) ==
  Len(ScriptContent(ScriptNamed(all_scripts, script_name))) = 0

\* C16: the history table only grows by rows appended at its end; a row is
\* appended by the successful INSERT of its script, sent right after the
\* script's content executed without error in the same run (or with no
\* execution when the content is empty), and the statement that follows the
\* execution of a script is the INSERT of that script, so that the row is there
\* before the next script is started.
C16_LedgerIntegrity ==
  /\ [](/\ history = hist0 \o RowsOf(trace)
        /\ \A i \in 1..Len(trace) :
             /\ trace[i].statement = "INSERT"
                => IF EmptyContent(trace[i].script)
                   THEN trace[i - 1].script # trace[i].script
                   ELSE trace[i - 1] = Query("SCRIPT", trace[i].script, TRUE)
             /\ (trace[i].statement = "SCRIPT" /\ i < Len(trace))
                => trace[i + 1].statement = "INSERT"
                   /\ trace[i + 1].script = trace[i].script)
  /\ [][\/ history' = history
        \/ /\ Len(history') = Len(history) + 1
           /\ SubSeq(history', 1, Len(history)) = history
           /\ SendsStatement
           /\ trace'[Len(trace')] =
                Query("INSERT", history'[Len(history')].script, TRUE)]_vars

\* A run has executed and recorded a script on top of a history that was not
\* empty.
C16_Witness ==
  /\ hist0 # <<>>
  /\ Len(Appended) >= 1
  /\ Len(Executed(trace)) >= 1
  /\ pc = "loop"

\* The run ended on a configuration check, a database operation (private key,
\* connection or statement) or a discovery step (the walk, or the sort of the names found).
StepFailed ==
  \/ failure \in ConfigErrors \cup KeyErrors
                 \cup {"DatabaseError", "ValueError_duplicate_version"}
  \/ /\ failure \in {"TypeError", "ValueError"}
     /\ all_scripts # <<>>
     /\ all_script_names_sorted = <<>>

\* The steps a run may still take are at most this many.
Rank ==
  LET phase == CASE pc = "credentials" -> 9 [] pc = "root_folder" -> 8
                 [] pc = "details" -> 7 [] pc = "create_database" -> 6
                 [] pc = "create_schema" -> 5 [] pc = "create_table" -> 4
                 [] pc = "fetch" -> 3 [] pc = "discover" -> 2
                 [] pc \in {"loop", "insert"} -> 1 [] OTHER -> 0
      scripts == IF pc \in {"loop", "insert"}
                 THEN Len(all_script_names_sorted) + 1 - idx ELSE 0
  IN 4 * (MaxFiles + 2) * phase + 4 * scripts
     + (IF pc = "loop" THEN 2 ELSE 0) + (IF con \/ RunEnded THEN 0 ELSE 1)

\* C17: every run ends, Done or Failed: every step of a run brings it closer to
\* its end, which it has reached exactly when it is Done or Failed; it ends Done
\* if and only if no configuration check, database operation or discovery step
\* failed; and a failed statement is the last the run sends.
C17_Termination ==
  /\ [](Rank >= 0 /\ (RunEnded <=> Rank = 0))
  /\ [][RunStep => Rank' < Rank]_vars
  /\ [](RunEnded => (pc = "Done" <=> ~StepFailed))
  /\ [](\A i \in 1..Len(trace) : ~trace[i].ok => i = Len(trace) /\ pc = "Failed")

\* C18: the key of every version string is computed without error, has an odd
\* number of elements, strings in lower case at the even positions counted
\* from 0 and non-negative integers at the odd ones; and the comparison of two
\* keys compares no integer with a string and raises nothing.
C18_VersionKeyShape ==
  pc = "compared"
  => LET k == get_alphanum_key(va)
     IN /\ ~KeyRaises(va)
        /\ Len(k) % 2 = 1
        /\ \A i \in 1..Len(k) :
             IF i % 2 = 1
             THEN k[i].kind = "str" /\ \A j \in 1..Len(k[i].s) : k[i].s[j] # "A"
             ELSE k[i].kind = "int" /\ k[i].n >= 0
        /\ cmp.ab \in {"lt", "eq", "gt"}
        /\ cmp.bc \in {"lt", "eq", "gt"}

\* C19: from an empty history table, over any sequence of runs, ended Done or
\* Failed, between which the files of the root folder may change, no two rows
\* of the history table have the same version string.
C19_NoDuplicateLedgerEntries ==
  \A i, j \in 1..Len(history) : history[i].version = history[j].version => i = j

\* A run has skipped a file of a recorded version that the run which recorded
\* the version did not find under this name.
C19_Witness ==
  /\ pc = "Done"
  /\ run >= 2
  /\ \E k \in 1..Len(all_scripts) :
       \E h \in 1..Len(hist0) :
         /\ hist0[h].version = all_scripts[k].script_version
         /\ hist0[h].script # all_scripts[k].script_name
  /\ Len(Appended) >= 1

=============================================================================
